---- MODULE Spec2Model ----
(***************************************************************************)
(* Model of streamlit_app.py, the Streamlit front end of the Medicare risk *)
(* adjustment model runner.                                                *)
(*                                                                         *)
(* Streamlit runs main() from top to bottom on every user interaction: a   *)
(* change of a sidebar widget reruns the script with the button reading    *)
(* False, a press of "Calculate" reruns it with the button reading True.   *)
(* The page after a run holds exactly the elements that run emitted, in    *)
(* order; an exception that leaves main() ends the run and is shown as an  *)
(* exception element.  The script keeps nothing in st.session_state, so    *)
(* the widget values are all that lasts from one run to the next.  `page`  *)
(* is the main area; the sidebar holds the widgets only.                   *)
(*                                                                         *)
(* Numbers: the scores are modelled as naturals (floats of integral        *)
(* value); the percentages are fixed point, in thousandths.  Text that the *)
(* code takes apart (the diagnosis codes, the JSON document) is a sequence *)
(* of characters or tokens; labels the code only passes on are strings.    *)
(***************************************************************************)
EXTENDS Integers, Sequences, FiniteSets, TLC

VARIABLES
    model_version,    \* st.selectbox("Model Verison", ...)
    gender,           \* st.selectbox("Gender", ...)
    orec,             \* st.number_input("OREC", ...), before str()
    age,              \* st.number_input("Age", ...)
    medicaid,         \* st.selectbox("Medicaid", ...)
    diagnosis_codes,  \* st.text_input(...), a sequence of characters
    year,             \* st.number_input("Year", ...)
    population,       \* st.selectbox("Population", ...)
    calculate,        \* what st.button("Calculate") returned in the last run
    page,             \* the elements the last run emitted, in order
    calls,            \* the engine calls the last run made, in order
    result,           \* main's local `result`: <<>> or <<r>>
    error             \* the exception that ended the last run, or "none"

vars == <<model_version, gender, orec, age, medicaid, diagnosis_codes, year,
          population, calculate, page, calls, result, error>>

widgets == <<model_version, gender, orec, age, medicaid, diagnosis_codes,
             year, population>>

----------------------------------------------------------------------------
(* Bounds of the model *)

MaxScore == 3      \* score fields of a Result range over 0..MaxScore
MaxLen == 2        \* longest diagnosis text, in characters

----------------------------------------------------------------------------
(* The widget layer *)

ModelVersions == <<"V24", "V28">>
Genders == <<"M", "F">>
MedicaidOptions == <<TRUE, FALSE>>
PopulationOptions == <<"CNA", "CND", "CPA", "CPD", "CFA", "CFD", "INS", "NE">>
MinYear == 2020
OrecMax == 3

Range(s) == {s[i] : i \in DOMAIN s}

\* The values of the pass-through inputs the model explores
Orecs == {0, OrecMax}
Ages == {0, 65}
Years == {MinYear, MinYear + 4}
Populations == {PopulationOptions[1], PopulationOptions[Len(PopulationOptions)]}

\* Characters a user types into the diagnosis field
Chars == {"A", ","}
Texts == UNION {[1..n -> Chars] : n \in 0..MaxLen}

----------------------------------------------------------------------------
(* Python built-ins the script uses *)

DigitChars == <<"0", "1", "2", "3", "4", "5", "6", "7", "8", "9">>

\* str(n) for a non-negative int: its decimal digits
RECURSIVE str(_)
str(n) == IF n < 10 THEN <<DigitChars[n + 1]>>
          ELSE str(n \div 10) \o <<DigitChars[(n % 10) + 1]>>

FirstComma(s) == CHOOSE i \in 1..Len(s) :
                    s[i] = "," /\ \A j \in 1..(i - 1) : s[j] # ","

\* s.split(",") where every empty piece is dropped
RECURSIVE splitDropEmpty(_)
splitDropEmpty(s) ==
    IF \A i \in 1..Len(s) : s[i] # ","
    THEN (IF s = <<>> THEN <<>> ELSE <<s>>)
    ELSE LET i == FirstComma(s)
             head == SubSeq(s, 1, i - 1)
         IN (IF head = <<>> THEN <<>> ELSE <<head>>)
            \o splitDropEmpty(SubSeq(s, i + 1, Len(s)))

\* s.split(","): the pieces between the commas, in order, empty ones kept
RECURSIVE split(_)
split(s) ==
    IF \A i \in 1..Len(s) : s[i] # ","
    THEN <<s>>
    ELSE LET i == FirstComma(s)
         IN <<SubSeq(s, 1, i - 1)>> \o split(SubSeq(s, i + 1, Len(s)))

\* round(d / s, 3) in thousandths, s > 0: the nearest thousandth, an exact
\* tie going to the even one
round3(d, s) ==
    LET q == (1000 * d) \div s
        r == (1000 * d) % s
    IN IF 2 * r < s THEN q
       ELSE IF 2 * r > s THEN q + 1
       ELSE IF q % 2 = 0 THEN q ELSE q + 1

----------------------------------------------------------------------------
(* The Result of the scoring engine (risk_adjustment_model), as the script *)
(* reads it: six scores and category_details, a dict of dicts.  A dict is  *)
(* the sequence of its <<key, value>> items in insertion order.            *)

CategoryKeys == <<"HCC1", "HCC2">>

\* Per-category attribute records the bounded engine returns
AttrRecords == { <<>>,
                 << <<"weight", 3>> >>,
                 << <<"count", 12>>, <<"weight", 0>> >> }

CategoryDetails ==
    { <<>> }
    \cup { << <<k, a>> >> : k \in Range(CategoryKeys), a \in AttrRecords }
    \cup { << <<CategoryKeys[1], a>>, <<CategoryKeys[2], b>> >> :
              a \in AttrRecords, b \in AttrRecords }

Scores == 0..MaxScore

\* Scenario 1-3 of the specification: score=100, disease_score=60, ...
ScenarioResult ==
    [score |-> 100, score_raw |-> 90,
     disease_score |-> 60, demographic_score |-> 40,
     disease_score_raw |-> 50, demographic_score_raw |-> 45,
     category_details |->
        << <<"HCC1", << <<"weight", 3>> >> >>, <<"HCC2", <<>> >> >>]

\* Unadjusted triples (score_raw, disease_score_raw, demographic_score_raw)
RawSamples == { <<0, 0, 0>>, <<2, 1, 1>>, <<5, 7, 9>> }

\* Results whose ratio disease_score / score lies exactly between two
\* thousandths: 1/16 = 0.0625 and 3/16 = 0.1875
TieResults ==
    { [ScenarioResult EXCEPT !.score = 16, !.disease_score = d,
                             !.demographic_score = 16 - d] : d \in {1, 3} }

Results ==
    { [score |-> s, score_raw |-> raw[1],
       disease_score |-> d, demographic_score |-> g,
       disease_score_raw |-> raw[2], demographic_score_raw |-> raw[3],
       category_details |-> c] :
         s \in Scores, d \in Scores, g \in Scores, raw \in RawSamples,
         c \in CategoryDetails }
    \cup {ScenarioResult} \cup TieResults

----------------------------------------------------------------------------
(* dataclasses.asdict and json.dumps(..., indent=4) as download_results    *)
(* uses them, and json.loads, the parser a reader of results.json applies  *)

\* A JSON value: a number or an object (its items in order)
JNum(n) == [k |-> "num", num |-> n, obj |-> <<>>]
JObj(items) == [k |-> "obj", num |-> 0, obj |-> items]

\* asdict that copies the top level only and loses category_details
asdictShallow(r) ==
    JObj(<< <<"score", JNum(r.score)>>,
            <<"score_raw", JNum(r.score_raw)>>,
            <<"disease_score", JNum(r.disease_score)>>,
            <<"demographic_score", JNum(r.demographic_score)>>,
            <<"disease_score_raw", JNum(r.disease_score_raw)>>,
            <<"demographic_score_raw", JNum(r.demographic_score_raw)>>,
            <<"category_details", JObj(<<>>)>> >>)

\* asdict(results): every field by name, in field order, nested dicts copied
asdict(r) ==
    LET attrs(a) == JObj([i \in 1..Len(a) |-> <<a[i][1], JNum(a[i][2])>>])
        cats(c) == JObj([i \in 1..Len(c) |-> <<c[i][1], attrs(c[i][2])>>])
    IN JObj(<< <<"score", JNum(r.score)>>,
               <<"score_raw", JNum(r.score_raw)>>,
               <<"disease_score", JNum(r.disease_score)>>,
               <<"demographic_score", JNum(r.demographic_score)>>,
               <<"disease_score_raw", JNum(r.disease_score_raw)>>,
               <<"demographic_score_raw", JNum(r.demographic_score_raw)>>,
               <<"category_details", cats(r.category_details)>> >>)

\* Tokens of the JSON text: punctuation, a newline with its indentation, a
\* quoted string, one character of a number
Punct(s) == [t |-> "punct", s |-> s, n |-> 0]
Newline(n) == [t |-> "nl", s |-> "", n |-> n]
Quoted(s) == [t |-> "str", s |-> s, n |-> 0]
NumChar(c) == [t |-> "char", s |-> c, n |-> 0]

IndentWidth == 4

\* float.__repr__ of a float of integral value: "60.0"
float_repr(n) ==
    LET cs == str(n) \o <<".", "0">>
    IN [i \in 1..Len(cs) |-> NumChar(cs[i])]

RECURSIVE dumps(_, _), dumpsItems(_, _, _)
\* json.dumps(v, indent=4), at nesting level `level`
dumps(v, level) ==
    IF v.k = "num" THEN float_repr(v.num)
    ELSE IF v.obj = <<>> THEN <<Punct("{"), Punct("}")>>
    ELSE <<Punct("{")>> \o dumpsItems(v.obj, 1, level + 1)
         \o <<Newline(IndentWidth * level), Punct("}")>>

dumpsItems(items, i, level) ==
    IF i > Len(items) THEN <<>>
    ELSE <<Newline(IndentWidth * level), Quoted(items[i][1]), Punct(":")>>
         \o dumps(items[i][2], level)
         \o (IF i < Len(items) THEN <<Punct(",")>> ELSE <<>>)
         \o dumpsItems(items, i + 1, level)

\* First position from i on that holds no token of kind t (Len+1 if none)
SkipKind(toks, i, t) ==
    CHOOSE j \in i..(Len(toks) + 1) :
        /\ (j <= Len(toks) => toks[j].t # t)
        /\ \A m \in i..(j - 1) : toks[m].t = t

DigitValue(c) == CHOOSE d \in 0..9 : DigitChars[d + 1] = c

\* int(digits)
RECURSIVE int(_)
int(ds) == IF ds = <<>> THEN 0
           ELSE 10 * int(SubSeq(ds, 1, Len(ds) - 1)) + DigitValue(ds[Len(ds)])

\* The number starting at toks[i]: digits, optionally "." and digits.  The
\* value is the integral part; the fraction of every number written by
\* float_repr above is 0.
parseNumber(toks, i) ==
    LET j == SkipKind(toks, i, "char")
        cs == [m \in 1..(j - i) |-> toks[i + m - 1].s]
        dots == {m \in 1..Len(cs) : cs[m] = "."}
        stop == IF dots = {} THEN Len(cs) + 1
                ELSE CHOOSE m \in dots : \A o \in dots : m <= o
    IN [val |-> JNum(int(SubSeq(cs, 1, stop - 1))), next |-> j]

RECURSIVE parseValue(_, _), parseItems(_, _, _)
\* The JSON value starting at or after toks[i], and the position after it
parseValue(toks, i) ==
    LET j == SkipKind(toks, i, "nl")
    IN IF toks[j] = Punct("{")
       THEN LET m == SkipKind(toks, j + 1, "nl")
            IN IF toks[m] = Punct("}")
               THEN [val |-> JObj(<<>>), next |-> m + 1]
               ELSE parseItems(toks, m, <<>>)
       ELSE parseNumber(toks, j)

parseItems(toks, i, acc) ==
    LET key == toks[i].s
        colon == SkipKind(toks, i + 1, "nl")
        v == parseValue(toks, colon + 1)
        n == SkipKind(toks, v.next, "nl")
        items == Append(acc, <<key, v.val>>)
    IN IF toks[n] = Punct(",")
       THEN parseItems(toks, SkipKind(toks, n + 1, "nl"), items)
       ELSE [val |-> JObj(items), next |-> n + 1]

\* json.loads(text)
loads(toks) == parseValue(toks, 1).val

----------------------------------------------------------------------------
(* Page elements and figures *)

Title(body) == [kind |-> "title", body |-> body]
Markdown(body) == [kind |-> "markdown", body |-> body]
Text(body) == [kind |-> "text", body |-> body]
Exception(type) == [kind |-> "exception", body |-> type]
DataFrame(index, columns, data) ==
    [kind |-> "dataframe", index |-> index, columns |-> columns, data |-> data]
PlotlyChart(fig, container, wide) ==
    [kind |-> "plotly_chart", fig |-> fig, container |-> container,
     use_container_width |-> wide]
DownloadButton(label, data, file_name, mime) ==
    [kind |-> "download_button", label |-> label, data |-> data,
     file_name |-> file_name, mime |-> mime]

\* A cell of a data frame: a value, or NaN where the row has no such column
Cell(v) == [nan |-> FALSE, v |-> v]
NaN == [nan |-> TRUE, v |-> 0]

\* go.Bar; hover is <<>> without a hovertemplate, else <<pct * 100>> with the
\* percentage in thousandths
Bar(name, x, y, color, hover) ==
    [type |-> "bar", name |-> name, x |-> x, y |-> y,
     marker_color |-> color, hover |-> hover]
\* go.Pie; values in thousandths
Pie(labels, values, hole) ==
    [type |-> "pie", labels |-> labels, values |-> values, hole |-> hole]
Figure(data, title, barmode, xtitle, ytitle) ==
    [data |-> data, title |-> title, barmode |-> barmode,
     xaxis |-> xtitle, yaxis |-> ytitle]

PieHole == 300    \* hole=0.3, in thousandths

----------------------------------------------------------------------------
(* pandas.DataFrame.from_dict(d, orient="index") for a dict of dicts: the  *)
(* nested dict is turned inside out (column -> {row: value}), so the       *)
(* columns and the rows come in order of first appearance and a row is     *)
(* there only if its dict holds a value.                                   *)

\* s without its repeated elements, first occurrences kept in order
RECURSIVE unique(_)
unique(s) ==
    IF s = <<>> THEN <<>>
    ELSE LET rest == unique(SubSeq(s, 1, Len(s) - 1))
             x == s[Len(s)]
         IN IF x \in Range(rest) THEN rest ELSE Append(rest, x)

RECURSIVE flatten(_)
flatten(ss) == IF ss = <<>> THEN <<>> ELSE Head(ss) \o flatten(Tail(ss))

Keys(d) == [i \in 1..Len(d) |-> d[i][1]]
HasKey(d, k) == \E i \in 1..Len(d) : d[i][1] = k
Get(d, k) == d[CHOOSE i \in 1..Len(d) : d[i][1] = k][2]

from_dict_index(d) ==
    LET columns == unique(flatten([i \in 1..Len(d) |-> Keys(d[i][2])]))
        rowsOf(c) == SelectSeq(Keys(d), LAMBDA k : HasKey(Get(d, k), c))
        index == unique(flatten([j \in 1..Len(columns) |-> rowsOf(columns[j])]))
        cell(k, c) == IF HasKey(Get(d, k), c) THEN Cell(Get(Get(d, k), c)) ELSE NaN
    IN DataFrame(index, columns,
                 [i \in 1..Len(index) |->
                     [j \in 1..Len(columns) |-> cell(index[i], columns[j])]])

----------------------------------------------------------------------------
(* The view builders.  A builder that can raise returns [raised, ...].     *)

\* display_score_results with the two rows' values exchanged
display_score_resultsSwapped(r) ==
    << Text("Scores Table"),
       from_dict_index(
         << <<"Adjusted", << <<"Score", r.score_raw>>,
                             <<"Disease Score", r.disease_score_raw>>,
                             <<"Demographic Score", r.demographic_score_raw>> >> >>,
            <<"Unadjusted", << <<"Score", r.score>>,
                               <<"Disease Score", r.disease_score>>,
                               <<"Demographic Score", r.demographic_score>> >> >> >>) >>

display_score_results(r) ==
    << Text("Scores Table"),
       from_dict_index(
         << <<"Adjusted", << <<"Score", r.score>>,
                             <<"Disease Score", r.disease_score>>,
                             <<"Demographic Score", r.demographic_score>> >> >>,
            <<"Unadjusted", << <<"Score", r.score_raw>>,
                               <<"Disease Score", r.disease_score_raw>>,
                               <<"Demographic Score", r.demographic_score_raw>> >> >> >>) >>

display_category_details(category_details) ==
    << Text("Category Details Table"), from_dict_index(category_details) >>

score_comparison(r) ==
    Figure(<< Bar("Unadjusted Score", <<"Unadjusted Score">>, <<r.score_raw>>,
                  "lightsalmon", <<>>),
              Bar("Score", <<"Score">>, <<r.score>>, "indianred", <<>>) >>,
           "Unadjusted Score vs Score", "group", "Score Type", "Score")

BreakdownFigure(r, disease_score_pct, demographic_score_pct) ==
    Figure(<< Bar("Disease Score", <<"Score">>, <<r.disease_score>>, "",
                  <<disease_score_pct * 100>>),
              Bar("Demographic Score", <<"Score">>, <<r.demographic_score>>, "",
                  <<demographic_score_pct * 100>>) >>,
           "Disease vs Demographic Score", "stack", "", "")

\* score_breakdown with the second percentage divided out on its own
score_breakdownTwoRatios(r) ==
    IF r.score = 0 THEN [raised |-> TRUE, fig |-> <<>>]
    ELSE [raised |-> FALSE,
          fig |-> << BreakdownFigure(r, round3(r.disease_score, r.score),
                                     round3(r.demographic_score, r.score)) >>]

\* result.disease_score / result.score raises ZeroDivisionError at score 0
score_breakdown(r) ==
    IF r.score = 0 THEN [raised |-> TRUE, fig |-> <<>>]
    ELSE LET disease_score_pct == round3(r.disease_score, r.score)
             demographic_score_pct == 1000 - disease_score_pct
         IN [raised |-> FALSE,
             fig |-> << BreakdownFigure(r, disease_score_pct,
                                        demographic_score_pct) >>]

\* Both figures are built before either is shown
display_score_breakdown(r) ==
    LET fig1 == score_comparison(r)
        b == score_breakdown(r)
    IN IF b.raised THEN [raised |-> TRUE, out |-> <<>>]
       ELSE [raised |-> FALSE,
             out |-> << PlotlyChart(fig1, "col1", TRUE),
                        PlotlyChart(b.fig[1], "col2", TRUE) >>]

display_score_breakdown_pct(r) ==
    IF r.score = 0 THEN [raised |-> TRUE, out |-> <<>>]
    ELSE LET disease_score_pct == round3(r.disease_score, r.score)
             demographic_score_pct == 1000 - disease_score_pct
             fig == Figure(<< Pie(<<"Disease Score", "Demographic Score">>,
                                  <<disease_score_pct, demographic_score_pct>>,
                                  PieHole) >>,
                           "Scores Proportion", "", "", "")
         IN [raised |-> FALSE, out |-> << PlotlyChart(fig, "main", FALSE) >>]

\* download_results offering the button twice
download_resultsTwice(r) ==
    LET b == DownloadButton("Download JSON", dumps(asdict(r), 0),
                            "results.json", "application/json")
    IN << b, b >>

download_results(r) ==
    LET result_dict == asdict(r)
        json_str == dumps(result_dict, 0)
    IN << DownloadButton("Download JSON", json_str, "results.json",
                         "application/json") >>

----------------------------------------------------------------------------
(* The scoring engine, an external collaborator: constructing the model or *)
(* calling score(...) may raise, or score(...) returns a Result.           *)

ZeroScoreResult ==
    [score |-> 0, score_raw |-> 0, disease_score |-> 0, demographic_score |-> 0,
     disease_score_raw |-> 0, demographic_score_raw |-> 0,
     category_details |-> <<>>]

\* The Results the engine returns to main in the orchestrator's specification
EngineResults ==
    {ScenarioResult, ZeroScoreResult}
    \cup {r \in Results :
            /\ r.score = MaxScore
            /\ r.disease_score = 1 /\ r.demographic_score = r.score - 1
            /\ r.score_raw = 2
            /\ r.category_details = << <<"HCC1", << <<"weight", 3>> >> >> >>}

EngineOutcomes ==
    {[raises |-> "constructor", result |-> <<>>],
     [raises |-> "score", result |-> <<>>]}
    \cup {[raises |-> "no", result |-> <<r>>] : r \in EngineResults}

ConstructorCall(cls, yr) ==
    [cls |-> cls, method |-> "__init__", kwargs |-> [year |-> yr]]
ScoreCall(cls, g, o, a, md, pop, codes, verbose) ==
    [cls |-> cls, method |-> "score",
     kwargs |-> [gender |-> g, orec |-> o, age |-> a, medicaid |-> md,
                 population |-> pop, diagnosis_codes |-> codes,
                 verbose |-> verbose]]

\* engine_call with a second, non-verbose score(...) call
engine_callTwice(mv, g, o, a, md, dx, yr, pop, outcome) ==
    LET diagnosis_codes_list == split(dx)
        cls == IF mv = "V24" THEN "MedicareModelV24" ELSE "MedicareModelV28"
        construct == ConstructorCall(cls, yr)
        score(v) == ScoreCall(cls, g, str(o), a, md, pop, diagnosis_codes_list, v)
    IN IF outcome.raises = "constructor"
       THEN [calls |-> <<construct>>, raised |-> TRUE, result |-> <<>>]
       ELSE IF outcome.raises = "score"
       THEN [calls |-> <<construct, score(FALSE)>>, raised |-> TRUE,
             result |-> <<>>]
       ELSE [calls |-> <<construct, score(FALSE), score(TRUE)>>,
             raised |-> FALSE, result |-> outcome.result]

\* Lines 231-248 of main: split the codes, construct the model the selector
\* names, call score(...) once
engine_call(mv, g, o, a, md, dx, yr, pop, outcome) ==
    LET diagnosis_codes_list == split(dx)
        cls == IF mv = "V24" THEN "MedicareModelV24" ELSE "MedicareModelV28"
        construct == ConstructorCall(cls, yr)
        score == ScoreCall(cls, g, str(o), a, md, pop, diagnosis_codes_list, TRUE)
    IN IF outcome.raises = "constructor"
       THEN [calls |-> <<construct>>, raised |-> TRUE, result |-> <<>>]
       ELSE [calls |-> <<construct, score>>,
             raised |-> outcome.raises = "score", result |-> outcome.result]

----------------------------------------------------------------------------
(* main: one run of the script *)

\* The exception of a failed engine call, named by the call that raised it
EngineError(made) ==
    IF made[Len(made)].method = "__init__" THEN "engine constructor raised"
    ELSE "engine score raised"

\* st.title and the closing "## Scoring Results" of the introduction
StaticPage ==
    << Title("Risk Adjustment Model Runner"), Markdown("Scoring Results") >>

\* Lines 250-254 of main: the four display calls in order; the exception of
\* display_score_breakdown ends the run before download_results
render(r) ==
    LET table == display_score_results(r)
        details == display_category_details(r.category_details)
        charts == display_score_breakdown(r)
    IN IF charts.raised
       THEN [out |-> table \o details \o <<Exception("ZeroDivisionError")>>,
             error |-> "ZeroDivisionError"]
       ELSE [out |-> table \o details \o charts.out \o download_results(r),
             error |-> "none"]

\* main writing the table's heading before it calls the engine
mainHeadingFirst(mv, g, o, a, md, dx, yr, pop, calc, outcome) ==
    IF ~calc
    THEN [page |-> StaticPage, calls |-> <<>>, result |-> <<>>, error |-> "none"]
    ELSE LET e == engine_call(mv, g, o, a, md, dx, yr, pop, outcome)
         IN IF e.raised
            THEN [page |-> StaticPage
                           \o <<Text("Scores Table"),
                                Exception(EngineError(e.calls))>>,
                  calls |-> e.calls, result |-> <<>>,
                  error |-> EngineError(e.calls)]
            ELSE LET v == render(e.result[1])
                 IN [page |-> StaticPage \o v.out, calls |-> e.calls,
                     result |-> e.result, error |-> v.error]

\* main adding this run's output below what the page already shows
mainAccumulate(mv, g, o, a, md, dx, yr, pop, calc, outcome) ==
    IF ~calc
    THEN [page |-> StaticPage, calls |-> <<>>, result |-> <<>>, error |-> "none"]
    ELSE LET e == engine_call(mv, g, o, a, md, dx, yr, pop, outcome)
         IN IF e.raised
            THEN [page |-> StaticPage \o <<Exception(EngineError(e.calls))>>,
                  calls |-> e.calls, result |-> <<>>,
                  error |-> EngineError(e.calls)]
            ELSE LET v == render(e.result[1])
                 IN [page |-> page \o v.out, calls |-> e.calls,
                     result |-> e.result, error |-> v.error]

\* One run of main() with the widget values given and the button reading
\* calc; outcome is what the engine does if it is called
main(mv, g, o, a, md, dx, yr, pop, calc, outcome) ==
    IF ~calc
    THEN [page |-> StaticPage, calls |-> <<>>, result |-> <<>>, error |-> "none"]
    ELSE LET e == engine_call(mv, g, o, a, md, dx, yr, pop, outcome)
         IN IF e.raised
            THEN [page |-> StaticPage \o <<Exception(EngineError(e.calls))>>,
                  calls |-> e.calls, result |-> <<>>,
                  error |-> EngineError(e.calls)]
            ELSE LET v == render(e.result[1])
                 IN [page |-> StaticPage \o v.out, calls |-> e.calls,
                     result |-> e.result, error |-> v.error]

----------------------------------------------------------------------------
(* The orchestrator: Streamlit reruns main on every interaction *)

Init ==
    /\ model_version = ModelVersions[1]
    /\ gender = Genders[1]
    /\ orec = 0
    /\ age = 0
    /\ medicaid = MedicaidOptions[1]
    /\ diagnosis_codes = <<>>
    /\ year = MinYear
    /\ population = PopulationOptions[1]
    /\ calculate = FALSE
    /\ page = StaticPage
    /\ calls = <<>>
    /\ result = <<>>
    /\ error = "none"

\* The run that follows an interaction, on the widget values after it
Rerun(calc, outcome) ==
    LET m == main(model_version', gender', orec', age', medicaid',
                  diagnosis_codes', year', population', calc, outcome)
    IN /\ calculate' = calc
       /\ page' = m.page
       /\ calls' = m.calls
       /\ result' = m.result
       /\ error' = m.error

NoOutcome == [raises |-> "no", result |-> <<>>]

SelectModelVersion ==
    \E v \in Range(ModelVersions) \ {model_version} :
        /\ model_version' = v
        /\ UNCHANGED <<gender, orec, age, medicaid, diagnosis_codes, year, population>>
        /\ Rerun(FALSE, NoOutcome)

SelectGender ==
    \E v \in Range(Genders) \ {gender} :
        /\ gender' = v
        /\ UNCHANGED <<model_version, orec, age, medicaid, diagnosis_codes, year, population>>
        /\ Rerun(FALSE, NoOutcome)

SetOrec ==
    \E v \in Orecs \ {orec} :
        /\ orec' = v
        /\ UNCHANGED <<model_version, gender, age, medicaid, diagnosis_codes, year, population>>
        /\ Rerun(FALSE, NoOutcome)

SetAge ==
    \E v \in Ages \ {age} :
        /\ age' = v
        /\ UNCHANGED <<model_version, gender, orec, medicaid, diagnosis_codes, year, population>>
        /\ Rerun(FALSE, NoOutcome)

SelectMedicaid ==
    \E v \in Range(MedicaidOptions) \ {medicaid} :
        /\ medicaid' = v
        /\ UNCHANGED <<model_version, gender, orec, age, diagnosis_codes, year, population>>
        /\ Rerun(FALSE, NoOutcome)

EditDiagnosisCodes ==
    \E v \in Texts \ {diagnosis_codes} :
        /\ diagnosis_codes' = v
        /\ UNCHANGED <<model_version, gender, orec, age, medicaid, year, population>>
        /\ Rerun(FALSE, NoOutcome)

SetYear ==
    \E v \in Years \ {year} :
        /\ year' = v
        /\ UNCHANGED <<model_version, gender, orec, age, medicaid, diagnosis_codes, population>>
        /\ Rerun(FALSE, NoOutcome)

SelectPopulation ==
    \E v \in Populations \ {population} :
        /\ population' = v
        /\ UNCHANGED <<model_version, gender, orec, age, medicaid, diagnosis_codes, year>>
        /\ Rerun(FALSE, NoOutcome)

PressCalculate ==
    \E outcome \in EngineOutcomes :
        /\ UNCHANGED widgets
        /\ Rerun(TRUE, outcome)

Next ==
    \/ SelectModelVersion
    \/ SelectGender
    \/ SetOrec
    \/ SetAge
    \/ SelectMedicaid
    \/ EditDiagnosisCodes
    \/ SetYear
    \/ SelectPopulation
    \/ PressCalculate

Spec == Init /\ [][Next]_vars

----------------------------------------------------------------------------
(* The view builders and the serializer on their own: a Result is drawn    *)
(* from Results and each step calls one of the functions on it; the page   *)
(* holds what that call emitted.                                           *)

InitViews ==
    /\ model_version = ModelVersions[1]
    /\ gender = Genders[1]
    /\ orec = 0
    /\ age = 0
    /\ medicaid = MedicaidOptions[1]
    /\ diagnosis_codes = <<>>
    /\ year = MinYear
    /\ population = PopulationOptions[1]
    /\ calculate = FALSE
    /\ page = <<>>
    /\ calls = <<>>
    /\ result \in {<<r>> : r \in Results}
    /\ error = "none"

Emit(out, raised) ==
    /\ page' = out
    /\ error' = IF raised THEN "ZeroDivisionError" ELSE "none"
    /\ UNCHANGED <<widgets, calculate, calls, result>>

CallDisplayScoreResults == Emit(display_score_results(result[1]), FALSE)

CallDisplayCategoryDetails ==
    Emit(display_category_details(result[1].category_details), FALSE)

CallDisplayScoreBreakdown ==
    LET c == display_score_breakdown(result[1]) IN Emit(c.out, c.raised)

CallDisplayScoreBreakdownPct ==
    LET c == display_score_breakdown_pct(result[1]) IN Emit(c.out, c.raised)

CallDownloadResults == Emit(download_results(result[1]), FALSE)

NextViews ==
    \/ CallDisplayScoreResults
    \/ CallDisplayCategoryDetails
    \/ CallDisplayScoreBreakdown
    \/ CallDisplayScoreBreakdownPct
    \/ CallDownloadResults

SpecViews == InitViews /\ [][NextViews]_vars

----------------------------------------------------------------------------
(* What the page shows *)

\* Positions of the data frame written under the heading `heading`
TablesUnder(pg, heading) ==
    {i \in 2..Len(pg) :
        /\ pg[i].kind = "dataframe"
        /\ pg[i - 1].kind = "text" /\ pg[i - 1].body = heading}
ChartsTitled(pg, title) ==
    {i \in 1..Len(pg) : pg[i].kind = "plotly_chart" /\ pg[i].fig.title = title}

ScoreTables(pg) == TablesUnder(pg, "Scores Table")
CategoryTables(pg) == TablesUnder(pg, "Category Details Table")
ComparisonCharts(pg) == ChartsTitled(pg, "Unadjusted Score vs Score")
BreakdownCharts(pg) == ChartsTitled(pg, "Disease vs Demographic Score")
ProportionCharts(pg) == ChartsTitled(pg, "Scores Proportion")
Exports(pg) == {i \in 1..Len(pg) : pg[i].kind = "download_button"}
Notices(pg) == {i \in 1..Len(pg) : pg[i].kind \in {"warning", "info"}}

ViewKinds == {"text", "dataframe", "plotly_chart", "download_button"}

\* The orchestrator's state: Rendered while the page shows output of a Result
OrchestratorState ==
    IF \E i \in 1..Len(page) : page[i].kind \in ViewKinds
    THEN "Rendered" ELSE "Idle"

ScoreCalls == {i \in 1..Len(calls) : calls[i].method = "score"}
ConstructorCalls == {i \in 1..Len(calls) : calls[i].method = "__init__"}
SelectedClass ==
    IF model_version = "V24" THEN "MedicareModelV24" ELSE "MedicareModelV28"

\* The last run was a calculate action whose engine call returned a Result
EngineSucceeded == calculate /\ result # <<>>
ZeroScoreRun == EngineSucceeded /\ result[1].score = 0

----------------------------------------------------------------------------
(* C1: a calculate action whose Result has score == 0 raises no uncaught   *)
(* arithmetic error: the Score Table and the Category Detail views are     *)
(* rendered and the Score Breakdown and Score Proportion charts are        *)
(* omitted, with a notice, instead of the run crashing.                    *)
C1_ZeroScoreDegradesGracefully ==
    ZeroScoreRun =>
        /\ error = "none"
        /\ ScoreTables(page) # {} /\ CategoryTables(page) # {}
        /\ BreakdownCharts(page) = {} /\ ProportionCharts(page) = {}
        /\ Notices(page) # {}

(* C2: for a calculate action whose Result has score == 0, the outputs     *)
(* that do not depend on the percentages, the Score Comparison chart and   *)
(* the export artifact, are still produced.                                *)
C2_ZeroScoreKeepsComparisonAndExport ==
    ZeroScoreRun => (ComparisonCharts(page) # {} /\ Exports(page) # {})

(* C3: when the engine's construction or its score(...) call fails during  *)
(* a calculate action, the page shows no view and no export artifact of    *)
(* that action, only the static page and the error, and the orchestrator   *)
(* is in Idle.                                                             *)
C3_EngineFailureRendersNothing ==
    (calculate /\ result = <<>>) =>
        /\ \A i \in 1..Len(page) : page[i].kind \in {"title", "markdown", "exception"}
        /\ ScoreTables(page) = {} /\ CategoryTables(page) = {}
        /\ ComparisonCharts(page) = {} /\ BreakdownCharts(page) = {}
        /\ ProportionCharts(page) = {} /\ Exports(page) = {}
        /\ OrchestratorState = "Idle"

C3_Witness ==
    /\ calculate /\ result = <<>>
    /\ error = "engine score raised"
    /\ ScoreCalls # {}

(* C4, as stated: score(...) is invoked exactly once per calculate action  *)
(* and never when calculate was not pressed, on the variant the            *)
(* model-version selector names.                                           *)
C4_ScoreExactlyOncePerCalculate ==
    /\ calculate => Cardinality(ScoreCalls) = 1
    /\ ~calculate => ScoreCalls = {}
    /\ \A i \in ScoreCalls : calls[i].cls = SelectedClass

(* C4, amended: score(...) is invoked at most once per calculate action:   *)
(* exactly once when the construction of the engine succeeds, not at all   *)
(* when the construction raises; it is never invoked when calculate was    *)
(* not pressed; the variant constructed and scored is V24 when the         *)
(* selector is V24 and V28 otherwise.                                      *)
C4_ScoreOnceUnlessConstructionFails ==
    /\ calculate =>
          /\ Cardinality(ConstructorCalls) = 1
          /\ Cardinality(ScoreCalls) =
                (IF error = "engine constructor raised" THEN 0 ELSE 1)
    /\ ~calculate => calls = <<>>
    /\ \A i \in 1..Len(calls) : calls[i].cls = SelectedClass

C4_Witness ==
    /\ calculate /\ model_version = "V28"
    /\ \E i \in ScoreCalls : calls[i].cls = "MedicareModelV28"
    /\ result # <<>>

(* C5: a calculate action whose engine call succeeds with score != 0       *)
(* produces, from that Result, the Score Table, the Category Detail table, *)
(* the Score Comparison chart, the Score Breakdown chart, the Score        *)
(* Proportion chart and the export artifact.                               *)
C5_AllViewsRendered ==
    (EngineSucceeded /\ result[1].score # 0) =>
        /\ error = "none"
        /\ ScoreTables(page) # {} /\ CategoryTables(page) # {}
        /\ ComparisonCharts(page) # {} /\ BreakdownCharts(page) # {}
        /\ ProportionCharts(page) # {}
        /\ Exports(page) # {}

\* pg shows each rendered view once, and one export artifact, all of r
ShowsExactly(pg, r) ==
    /\ \E i \in 1..Len(pg) :
          ScoreTables(pg) = {i} /\ pg[i] = display_score_results(r)[2]
    /\ \E i \in 1..Len(pg) :
          /\ CategoryTables(pg) = {i}
          /\ pg[i] = display_category_details(r.category_details)[2]
    /\ \E i \in 1..Len(pg) :
          ComparisonCharts(pg) = {i} /\ pg[i].fig = score_comparison(r)
    /\ \E i \in 1..Len(pg) : BreakdownCharts(pg) = {i}
    /\ \E i \in 1..Len(pg) :
          Exports(pg) = {i} /\ loads(pg[i].data) = asdict(r)

\* Every view and export artifact pg holds is one of r, none twice
ShowsOnly(pg, r) ==
    /\ Cardinality(ScoreTables(pg)) <= 1 /\ Cardinality(CategoryTables(pg)) <= 1
    /\ Cardinality(ComparisonCharts(pg)) <= 1
    /\ Cardinality(BreakdownCharts(pg)) <= 1
    /\ Cardinality(Exports(pg)) <= 1
    /\ \A i \in 1..Len(pg) :
          /\ pg[i].kind = "dataframe" =>
                /\ i \in ScoreTables(pg) \cup CategoryTables(pg)
                /\ i \in ScoreTables(pg) => pg[i] = display_score_results(r)[2]
                /\ i \in CategoryTables(pg) =>
                      pg[i] = display_category_details(r.category_details)[2]
          /\ pg[i].kind = "plotly_chart" =>
                /\ i \in ComparisonCharts(pg) \cup BreakdownCharts(pg)
                /\ i \in ComparisonCharts(pg) => pg[i].fig = score_comparison(r)
                /\ i \in BreakdownCharts(pg) =>
                      /\ pg[i].fig.data[1].y = <<r.disease_score>>
                      /\ pg[i].fig.data[2].y = <<r.demographic_score>>
          /\ pg[i].kind = "download_button" => loads(pg[i].data) = asdict(r)

NoViews(pg) == \A i \in 1..Len(pg) : pg[i].kind \notin ViewKinds

(* C6, as stated: after calculate actions the views and the export         *)
(* artifact are those of the most recent successful calculate action, each *)
(* view once and exactly one export artifact on offer.  Stated for a       *)
(* calculate action that follows a successful one: the page then shows the *)
(* new Result if the new action succeeds, and still the earlier one if it  *)
(* does not.                                                               *)
C6_LatestSuccessfulResultShown ==
    [][ (calculate /\ error = "none" /\ result # <<>> /\ calculate') =>
           IF error' = "none"
           THEN ShowsExactly(page', result'[1])
           ELSE ShowsExactly(page', result[1]) ]_vars

(* C6, amended: after any calculate action the page holds only what that   *)
(* action's own run rendered: every view and export artifact on it is      *)
(* built from that run's Result, each at most once, and nothing of an      *)
(* earlier Result remains; a run whose engine call fails leaves no view    *)
(* and no export artifact, and a run that completes shows the Score Table, *)
(* the Category Detail table, the Score Comparison and Score Breakdown     *)
(* charts once each and offers exactly one export artifact.                *)
C6_PageHoldsOnlyLatestRun ==
    calculate =>
        /\ result = <<>> => NoViews(page)
        /\ result # <<>> => ShowsOnly(page, result[1])
        /\ error = "none" => ShowsExactly(page, result[1])

C6_Witness ==
    /\ calculate /\ error = "none"
    /\ result = <<ScenarioResult>>
    /\ Cardinality(Exports(page)) = 1

----------------------------------------------------------------------------
(* Percentages, in thousandths *)

Abs(x) == IF x < 0 THEN -x ELSE x

\* p is d/s rounded to 3 decimal places
IsRounded3(p, d, s) ==
    /\ 2 * Abs(1000 * d - p * s) <= s
    /\ (2 * Abs(1000 * d - p * s) = s) => p % 2 = 0

\* The percentage pairs the charts on the page carry
BreakdownPairs ==
    {<<page[i].fig.data[1].hover[1], page[i].fig.data[2].hover[1]>> :
        i \in BreakdownCharts(page)}
ProportionPairs ==
    {page[i].fig.data[1].values : i \in ProportionCharts(page)}

(* C7: for a Result with score != 0, disease_score_pct is                  *)
(* disease_score / score rounded to 3 decimal places and                   *)
(* demographic_score_pct is 1 - disease_score_pct, so the two sum to       *)
(* exactly 1; the breakdown chart (which shows them times 100) and the     *)
(* proportion chart carry the same pair; score=100, disease_score=60       *)
(* gives 0.6 and 0.4.                                                      *)
C7_PercentagesSumToOne ==
    LET r == result[1]
        ok(p, q) == /\ IsRounded3(p, r.disease_score, r.score)
                    /\ p + q = 1000
                    /\ (r.score = 100 /\ r.disease_score = 60) =>
                          (p = 600 /\ q = 400)
    IN /\ \A pq \in ProportionPairs : ok(pq[1], pq[2])
       /\ \A pq \in BreakdownPairs :
             /\ pq[1] % 100 = 0 /\ pq[2] % 100 = 0
             /\ ok(pq[1] \div 100, pq[2] \div 100)

C7_Witness ==
    /\ result = <<ScenarioResult>>
    /\ ProportionPairs = {<<600, 400>>}

(* C8: the Score Table has exactly the rows Adjusted and Unadjusted and    *)
(* the columns Score, Disease Score, Demographic Score; the Adjusted row   *)
(* is (score, disease_score, demographic_score) and the Unadjusted row is  *)
(* (score_raw, disease_score_raw, demographic_score_raw).                  *)
C8_ScoreTableRows ==
    \A i \in ScoreTables(page) :
        LET r == result[1] IN
        /\ page[i].index = <<"Adjusted", "Unadjusted">>
        /\ page[i].columns = <<"Score", "Disease Score", "Demographic Score">>
        /\ page[i].data =
              << <<Cell(r.score), Cell(r.disease_score),
                   Cell(r.demographic_score)>>,
                 <<Cell(r.score_raw), Cell(r.disease_score_raw),
                   Cell(r.demographic_score_raw)>> >>

C8_Witness ==
    /\ ScoreTables(page) # {}
    /\ result = <<ScenarioResult>>

----------------------------------------------------------------------------
(* Diagnosis codes *)

Commas(s) == Cardinality({i \in 1..Len(s) : s[i] = ","})

RECURSIVE Join(_)
Join(list) == IF Len(list) = 1 THEN list[1]
              ELSE list[1] \o <<",">> \o Join(Tail(list))

(* C9: the engine receives the diagnosis text as the ordered sequence of   *)
(* its comma-separated substrings, nothing trimmed, deduplicated or        *)
(* dropped: a text with n commas gives n+1 elements in input order, and    *)
(* the empty text gives one element, the empty string.                     *)
C9_DiagnosisCodesSplit ==
    \A i \in ScoreCalls :
        LET codes == calls[i].kwargs.diagnosis_codes IN
        /\ Len(codes) = Commas(diagnosis_codes) + 1
        /\ \A j \in 1..Len(codes) : Commas(codes[j]) = 0
        /\ Join(codes) = diagnosis_codes
        /\ diagnosis_codes = <<>> => codes = << <<>> >>

C9_Witness ==
    /\ diagnosis_codes = <<",", ",">>
    /\ \E i \in ScoreCalls :
          calls[i].kwargs.diagnosis_codes = << <<>>, <<>>, <<>> >>

----------------------------------------------------------------------------
(* Export *)

\* The Python dict a parsed JSON object of numbers stands for
NumberItems(v) == [i \in 1..Len(v.obj) |-> <<v.obj[i][1], v.obj[i][2].num>>]
CategoryItems(v) ==
    [i \in 1..Len(v.obj) |-> <<v.obj[i][1], NumberItems(v.obj[i][2])>>]

(* C10: the exported document's top-level keys are exactly the Result's    *)
(* attribute names; parsing it gives back every field of the Result, the   *)
(* nested category_details included; serializing the parsed document again *)
(* gives the identical document.                                           *)
C10_ExportRoundTrips ==
    \A i \in Exports(page) :
        LET r == result[1]
            doc == page[i].data
            parsed == loads(doc)
            field(name) == Get(parsed.obj, name)
        IN /\ Range(Keys(parsed.obj)) = DOMAIN r
           /\ Len(parsed.obj) = Cardinality(DOMAIN r)
           /\ \A name \in DOMAIN r \ {"category_details"} :
                 field(name).k = "num" /\ field(name).num = r[name]
           /\ CategoryItems(field("category_details")) = r.category_details
           /\ dumps(parsed, 0) = doc

C10_Witness ==
    /\ Exports(page) # {}
    /\ result = <<ScenarioResult>>

====
